---- MODULE Spec2Model ----
(***************************************************************************)
(* The Monty Hall simulator of tools/monty-hall/app.js as a state machine: *)
(* the game record, the browser's local storage, the two DOM elements the  *)
(* game logic writes (action buttons, status message) and the pending      *)
(* timers (animated reveals that are suspended at their await, and the     *)
(* auto-reset scheduled by makeDecision).                                  *)
(***************************************************************************)
EXTENDS Integers, Sequences, FiniteSets, TLC

\* ---------------------------------------------------------------- bounds
\* Cap on totalGames: no further round is resolved once it is reached.
MaxGames == 1
\* Cap on the revealDoorsSequentially calls suspended at once.
MaxReveals == 1
\* Cap on the auto-reset timers pending at once.
MaxResets == 1
\* Cap on the scroll events the viewer's listener handles between two runs
\* of updateFromScroll.
MaxScrolls == 2
\* Cap on the rows of the population file.
MaxData == 3
\* The scrollable height of a page that does not fit the window.
PageHeight == 4

\* ------------------------------------------------------ program constants
\* if (newCount >= 3 && newCount <= 10)
MinDoors == 3
MaxDoors == 10
\* numDoors: 3 in the gameState literal
InitialDoors == 3
\* if (gameState.numDoors > 3) revealDoorsSequentially()
AnimateAbove == 3

\* JavaScript null (carDoor, selectedDoor) and NaN (parseInt of a non-number)
Null == -1
NaN == -2
\* localStorage.getItem of a key that was never set
Absent == <<"null">>

\* What the user types into the door-count input, as parseInt reads it: no
\* number, one below the accepted range, the count without animation, a
\* count with the animated reveal, one above the accepted range.
DoorCountInputs == {NaN, 2, 3, 4, 11}

\* ------------------------------------------------------------- strings
\* A string is a sequence of one-character strings.
Digits == <<"0", "1", "2", "3", "4", "5", "6", "7", "8", "9">>

IsDigit(c) == \E d \in 1..10 : Digits[d] = c

DigitValue(c) == (CHOOSE d \in 1..10 : Digits[d] = c) - 1

\* String(n) for an integer n >= 0, as localStorage.setItem stores a number
RECURSIVE NumberToString(_)
NumberToString(n) ==
    IF n = NaN THEN <<"N", "a", "N">>
    ELSE IF n < 10 THEN <<Digits[n + 1]>>
    ELSE Append(NumberToString(n \div 10), Digits[(n % 10) + 1])

\* The value of the longest prefix of digits of s, given the value acc of the
\* digits read so far
RECURSIVE ParseDigits(_, _)
ParseDigits(s, acc) ==
    IF s = <<>> \/ ~IsDigit(Head(s)) THEN acc
    ELSE ParseDigits(Tail(s), 10 * acc + DigitValue(Head(s)))

\* parseInt(s): the leading decimal digits, NaN when there is none
ParseInt(s) ==
    IF s = <<>> \/ ~IsDigit(Head(s)) THEN NaN ELSE ParseDigits(s, 0)

\* localStorage.getItem(key) || '0'
OrZero(v) == IF v = Absent \/ v = <<>> THEN <<"0">> ELSE v

\* x++ on a counter
Increment(x) == IF x = NaN THEN NaN ELSE x + 1

\* ----------------------------------------------------------- sequences
RemoveAt(s, idx) == [j \in 1..(Len(s) - 1) |-> IF j < idx THEN s[j] ELSE s[j + 1]]

Min(a, b) == IF a < b THEN a ELSE b

\* ----------------------------------------------------------- the state
VARIABLES
    readyState,      \* "loading" until DOMContentLoaded has run, then "interactive"
    gameState,       \* the gameState record
    localStorage,    \* key -> stored string, or Absent
    actionButtons,   \* actionButtons.style.display
    statusMessage,   \* statusMessage.textContent
    timers,          \* pending setTimeout callbacks, oldest first
    errors,          \* the exceptions handlers have ended with (none returns)
    menu,            \* the site's mobile menu: nav links, button attribute, icon
    viewer           \* the population viewer's scroll state

\* The game, the menu and the population viewer are three scripts, each
\* specified on its own: the menu and the viewer are held at "elsewhere"
\* while another script is specified, the game at its state before
\* DOMContentLoaded.

vars == <<readyState, gameState, localStorage, actionButtons, statusMessage, timers,
          errors, menu, viewer>>

StorageKeys == {"montyHall_stayWins", "montyHall_switchWins", "montyHall_totalGames"}

\* let gameState = { numDoors: 3, carDoor: null, ... }
\* revealedDoors is an array the code only pushes to and reads through
\* includes(): the record keeps the set of its elements. The availableDoors
\* of a reveal are likewise kept as the set a random index draws from.
InitialGameState ==
    [numDoors |-> InitialDoors, carDoor |-> Null, selectedDoor |-> Null,
     revealedDoors |-> {}, phase |-> "SELECT",
     stayWins |-> 0, switchWins |-> 0, totalGames |-> 0,
     showProbabilities |-> FALSE]

\* The storage a first visit finds (nothing stored), and the storage an
\* earlier visit of forty rounds has left.
InitialStorage ==
    { [k \in StorageKeys |-> Absent],
      [k \in StorageKeys |->
          CASE k = "montyHall_stayWins" -> <<"1", "2">>
            [] k = "montyHall_switchWins" -> <<"2", "5">>
            [] k = "montyHall_totalGames" -> <<"4", "0">>] }

MsgPick == "Pick a door to start!"
MsgOpenedOne == "A door has been opened! Do you want to stay or switch?"
MsgOpenedAll == "Doors have been opened! Do you want to stay or switch?"

\* The message makeDecision shows
ResultMessage(won, decision) ==
    IF won
    THEN (IF decision = "stay" THEN "You won! You stayed and found the car!"
                               ELSE "You won! You switched and found the car!")
    ELSE (IF decision = "stay" THEN "You lost! You stayed and got a goat."
                               ELSE "You lost! You switched and got a goat.")

\* ---- the site's mobile menu (initMobileMenu)
\* textContent of .mobile-menu-btn: the hamburger and the close icon
Hamburger == "U+2630"
Close == "U+2715"

\* if (window.innerWidth > 768)
MobileBreakpoint == 768

\* The widths window.innerWidth takes
Widths == {320, 768, 769, 1280}

\* setAttribute('aria-expanded', isExpanded) stores String(isExpanded)
BooleanToString(b) == IF b THEN "true" ELSE "false"

\* What the outside-click and the resize handler leave: no 'active' class,
\* aria-expanded "false", the hamburger icon
CloseMenu(m) ==
    [m EXCEPT !.active = FALSE, !.ariaExpanded = "false", !.textContent = Hamburger]

\* The markup the script finds is not part of the script: the nav links
\* with or without the 'active' class, the button with any aria-expanded
\* attribute or none ("null"), any text, inside or outside .header. handled
\* is the last event a listener of the menu has handled.
ServedMenus ==
    [active : BOOLEAN, ariaExpanded : {"null", "false", "true"},
     textContent : {Hamburger, Close, "Menu"}, buttonInHeader : BOOLEAN,
     innerWidth : Widths, handled : {"none"}]

\* ---- the population viewer's scroll state
\* let populationData = []; let currentIndex = 0; let scrollTicking = false;
\* length is populationData.length, frames the number of pending
\* requestAnimationFrame callbacks, listening whether the scroll listener is
\* installed, scrollPosition the window.scrollY the last updateFromScroll
\* read, unseen the number of scroll events handled since that run
InitialViewer ==
    [length |-> 0, currentIndex |-> 0, scrollTicking |-> FALSE, frames |-> 0,
     listening |-> FALSE, scrollY |-> 0, scrollHeight |-> 0,
     scrollPosition |-> Null, unseen |-> 0]

Init ==
    /\ readyState = "loading"
    /\ gameState = InitialGameState
    /\ localStorage \in InitialStorage
    /\ actionButtons = "undefined"
    /\ statusMessage = "undefined"
    /\ timers = <<>>
    /\ errors = {}
    /\ menu = "elsewhere"
    /\ viewer = "elsewhere"

\* ------------------------------------------------------------ statistics
\* saveStatistics() without its third setItem
MutSaveStatistics(gs) ==
    [localStorage EXCEPT !["montyHall_stayWins"] = NumberToString(gs.stayWins),
                         !["montyHall_switchWins"] = NumberToString(gs.switchWins)]

\* saveStatistics(): the storage after the three setItem calls
SaveStatistics(gs) ==
    [localStorage EXCEPT !["montyHall_stayWins"] = NumberToString(gs.stayWins),
                         !["montyHall_switchWins"] = NumberToString(gs.switchWins),
                         !["montyHall_totalGames"] = NumberToString(gs.totalGames)]

\* loadStatistics() without the || '0' fallback
MutLoadStatistics(gs) ==
    [gs EXCEPT !.stayWins = ParseInt(localStorage["montyHall_stayWins"]),
               !.switchWins = ParseInt(localStorage["montyHall_switchWins"]),
               !.totalGames = ParseInt(localStorage["montyHall_totalGames"])]

\* loadStatistics(): the game record after the three parseInt(getItem || '0')
LoadStatistics(gs) ==
    [gs EXCEPT !.stayWins = ParseInt(OrZero(localStorage["montyHall_stayWins"])),
               !.switchWins = ParseInt(OrZero(localStorage["montyHall_switchWins"])),
               !.totalGames = ParseInt(OrZero(localStorage["montyHall_totalGames"]))]

\* ------------------------------------------------------------ the round
\* resetGame() that also clears the counters
MutResetGame(gs) ==
    /\ \E car \in 0..(gs.numDoors - 1) :
          gameState' = [gs EXCEPT !.carDoor = car, !.selectedDoor = Null,
                                  !.revealedDoors = {}, !.phase = "SELECT",
                                  !.stayWins = 0, !.switchWins = 0,
                                  !.totalGames = 0]
    /\ actionButtons' = "none"
    /\ statusMessage' = MsgPick

\* resetGame() leaving the opened doors open
MutResetGameKeepsReveals(gs) ==
    /\ \E car \in 0..(gs.numDoors - 1) :
          gameState' = [gs EXCEPT !.carDoor = car, !.selectedDoor = Null,
                                  !.phase = "SELECT"]
    /\ actionButtons' = "none"
    /\ statusMessage' = MsgPick

\* resetGame(): a new car door, selection and reveals cleared, phase SELECT,
\* the action buttons hidden, the doors rendered; gs is the record it starts from.
ResetGame(gs) ==
    /\ \E car \in 0..(gs.numDoors - 1) :
          gameState' = [gs EXCEPT !.carDoor = car, !.selectedDoor = Null,
                                  !.revealedDoors = {}, !.phase = "SELECT"]
    /\ actionButtons' = "none"
    /\ statusMessage' = MsgPick

\* The doors renderDoors gives a click handler
Clickable ==
    { i \in 0..(gameState.numDoors - 1) :
        gameState.phase = "SELECT" /\ i \notin gameState.revealedDoors }

\* availableDoors of revealDoor / revealDoorsSequentially: every door but the
\* car and the selection, ascending
AvailableDoors(gs) ==
    { i \in 0..(gs.numDoors - 1) : i # gs.carDoor /\ i # gs.selectedDoor }

\* revealDoor(): the possible values of revealedDoors after its loop has
\* drawn `count` more doors from `available`
RECURSIVE RevealLoop(_, _, _)
RevealLoop(available, count, revealed) ==
    IF count = 0 \/ available = {} THEN {revealed}
    ELSE UNION { RevealLoop(available \ {doorToReveal}, count - 1,
                            revealed \cup {doorToReveal}) :
                 doorToReveal \in available }

\* revealDoor() opening any door but the selected one, the car included
MutRevealDoor(gs) ==
    LET availableDoors == { i \in 0..(gs.numDoors - 1) : i # gs.selectedDoor }
        doorsToReveal == Min(gs.numDoors - 2, Cardinality(availableDoors))
    IN  RevealLoop(availableDoors, doorsToReveal, gs.revealedDoors)

RevealDoor(gs) ==
    LET availableDoors == AvailableDoors(gs)
        doorsToReveal == Min(gs.numDoors - 2, Cardinality(availableDoors))
    IN  RevealLoop(availableDoors, doorsToReveal, gs.revealedDoors)

\* A timer entry: the suspended frame of a revealDoorsSequentially call
RevealTimer(available, i, doorsToReveal) ==
    [kind |-> "reveal", availableDoors |-> available, i |-> i,
     doorsToReveal |-> doorsToReveal]

\* A timer entry: the auto-reset of makeDecision
ResetTimer ==
    [kind |-> "reset", availableDoors |-> {}, i |-> 0, doorsToReveal |-> 0]

\* revealDoorsSequentially from its loop test on: one more door is drawn,
\* pushed and rendered and the frame suspends on a new timer, or the loop is
\* over and the action buttons are shown. gs is the game record and pending
\* the other timers at that point.
RevealIteration(gs, pending, available, i, doorsToReveal) ==
    IF i < doorsToReveal /\ available # {}
    THEN /\ \E doorToReveal \in available :
              /\ gameState' = [gs EXCEPT !.revealedDoors = @ \cup {doorToReveal}]
              /\ timers' = Append(pending,
                                  RevealTimer(available \ {doorToReveal},
                                              i, doorsToReveal))
         /\ UNCHANGED <<actionButtons, statusMessage>>
    ELSE /\ gameState' = gs
         /\ timers' = pending
         /\ statusMessage' = MsgOpenedAll
         /\ actionButtons' = "flex"

\* revealDoorsSequentially() opening one door less
MutRevealDoorsSequentially(gs) ==
    LET availableDoors == AvailableDoors(gs)
        doorsToReveal == Min(gs.numDoors - 3, Cardinality(availableDoors))
    IN  RevealIteration(gs, timers, availableDoors, 0, doorsToReveal)

\* revealDoorsSequentially() up to its first await
RevealDoorsSequentially(gs) ==
    LET availableDoors == AvailableDoors(gs)
        doorsToReveal == Min(gs.numDoors - 2, Cardinality(availableDoors))
    IN  RevealIteration(gs, timers, availableDoors, 0, doorsToReveal)

\* selectDoor(doorIndex)
SelectDoor(doorIndex) ==
    IF gameState.phase # "SELECT" THEN UNCHANGED vars
    ELSE LET gs == [gameState EXCEPT !.selectedDoor = doorIndex,
                                     !.phase = "SWITCH_OR_STAY"]
         IN  /\ UNCHANGED <<readyState, localStorage, errors, menu, viewer>>
             /\ IF gs.numDoors > AnimateAbove
                THEN RevealDoorsSequentially(gs)
                ELSE /\ \E revealed \in RevealDoor(gs) :
                          gameState' = [gs EXCEPT !.revealedDoors = revealed]
                     /\ statusMessage' = MsgOpenedOne
                     /\ actionButtons' = "flex"
                     /\ UNCHANGED timers

\* makeDecision: the other unopened door, or the selection when there is none
FinalDoor(gs, decision) ==
    LET others == { i \in 0..(gs.numDoors - 1) :
                      i # gs.selectedDoor /\ i \notin gs.revealedDoors }
    IN  IF decision = "switch" /\ others # {}
        THEN CHOOSE i \in others : \A j \in others : i <= j
        ELSE gs.selectedDoor

\* makeDecision counting every round of a strategy as a win
MutUpdateCounters(gs, decision, won) ==
    [gs EXCEPT !.totalGames = Increment(@),
               !.stayWins = IF decision = "stay" THEN Increment(@) ELSE @,
               !.switchWins = IF decision # "stay" THEN Increment(@) ELSE @]

\* makeDecision: the counters after the round
UpdateCounters(gs, decision, won) ==
    [gs EXCEPT !.totalGames = Increment(@),
               !.stayWins = IF decision = "stay" /\ won THEN Increment(@) ELSE @,
               !.switchWins = IF decision # "stay" /\ won THEN Increment(@) ELSE @]

\* makeDecision(decision) without its setTimeout
MutMakeDecisionNoTimer(decision) ==
    IF gameState.phase # "SWITCH_OR_STAY" THEN UNCHANGED vars
    ELSE LET finalDoor == FinalDoor(gameState, decision)
             won == finalDoor = gameState.carDoor
             counted == UpdateCounters(gameState, decision, won)
         IN  /\ localStorage' = SaveStatistics(counted)
             /\ gameState' = [counted EXCEPT !.selectedDoor = finalDoor,
                                             !.phase = "REVEAL"]
             /\ actionButtons' = "none"
             /\ statusMessage' = ResultMessage(won, decision)
             /\ UNCHANGED <<readyState, timers, errors, menu, viewer>>

\* makeDecision(decision) without its phase test
MutMakeDecision(decision) ==
    LET finalDoor == FinalDoor(gameState, decision)
        won == finalDoor = gameState.carDoor
        counted == UpdateCounters(gameState, decision, won)
    IN  /\ localStorage' = SaveStatistics(counted)
        /\ gameState' = [counted EXCEPT !.selectedDoor = finalDoor,
                                        !.phase = "REVEAL"]
        /\ actionButtons' = "none"
        /\ statusMessage' = ResultMessage(won, decision)
        /\ timers' = Append(timers, ResetTimer)
        /\ UNCHANGED <<readyState, errors, menu, viewer>>

\* makeDecision(decision)
MakeDecision(decision) ==
    IF gameState.phase # "SWITCH_OR_STAY" THEN UNCHANGED vars
    ELSE LET finalDoor == FinalDoor(gameState, decision)
             won == finalDoor = gameState.carDoor
             counted == UpdateCounters(gameState, decision, won)
         IN  /\ localStorage' = SaveStatistics(counted)
             /\ gameState' = [counted EXCEPT !.selectedDoor = finalDoor,
                                             !.phase = "REVEAL"]
             /\ actionButtons' = "none"
             /\ statusMessage' = ResultMessage(won, decision)
             /\ timers' = Append(timers, ResetTimer)
             /\ UNCHANGED <<readyState, errors, menu, viewer>>

\* --------------------------------------------------------- probabilities
\* The numbers calculateProbability computes are fractions of small
\* integers; they are kept exact, as <<numerator, denominator>> in lowest
\* terms.
RECURSIVE GCD(_, _)
GCD(a, b) == IF b = 0 THEN a ELSE GCD(b, a % b)

Rat(a, b) == LET g == GCD(a, b) IN <<a \div g, b \div g>>

RatSub(x, y) == Rat(x[1] * y[2] - y[1] * x[2], x[2] * y[2])

\* x / k for a count k; a division by 0 gives Infinity
Infinity == <<1, 0>>
RatDiv(x, k) == IF k = 0 THEN Infinity ELSE Rat(x[1], x[2] * k)

\* calculateProbability(doorIndex)
CalculateProbability(gs, doorIndex) ==
    IF gs.phase = "SELECT" THEN Rat(1, gs.numDoors)
    ELSE IF gs.phase = "SWITCH_OR_STAY"
    THEN LET unopenedDoors == { i \in 0..(gs.numDoors - 1) : i \notin gs.revealedDoors }
         IN  IF doorIndex = gs.selectedDoor THEN Rat(1, gs.numDoors)
             ELSE IF doorIndex \in gs.revealedDoors THEN Rat(0, 1)
             ELSE LET remainingProb == RatSub(Rat(1, 1), Rat(1, gs.numDoors))
                      otherUnopened ==
                          Cardinality(unopenedDoors \ {gs.selectedDoor})
                  IN  RatDiv(remainingProb, otherUnopened)
    ELSE IF doorIndex = gs.carDoor THEN Rat(1, 1) ELSE Rat(0, 1)

\* saveStatistics() whose setItem number failAt throws (storage full or
\* denied): the calls before it have written
SaveStatisticsUntil(gs, failAt) ==
    [k \in StorageKeys |->
        CASE k = "montyHall_stayWins" /\ failAt > 1 -> NumberToString(gs.stayWins)
          [] k = "montyHall_switchWins" /\ failAt > 2 -> NumberToString(gs.switchWins)
          [] OTHER -> localStorage[k]]

\* makeDecision(decision) when setItem number failAt throws: nothing catches
\* the exception, which ends saveStatistics and makeDecision after the
\* counters were updated and before the round is closed
MakeDecisionThrows(decision, failAt) ==
    IF gameState.phase # "SWITCH_OR_STAY" THEN UNCHANGED vars
    ELSE LET finalDoor == FinalDoor(gameState, decision)
             won == finalDoor = gameState.carDoor
             counted == UpdateCounters(gameState, decision, won)
         IN  /\ gameState' = counted
             /\ localStorage' = SaveStatisticsUntil(counted, failAt)
             /\ errors' = errors \cup {"QuotaExceededError"}
             /\ UNCHANGED <<readyState, actionButtons, statusMessage, timers,
                           menu, viewer>>

\* --------------------------------------------------------------- actions
\* The page is loaded again: the script runs anew, pending timers are gone,
\* local storage stays.
Reload ==
    /\ readyState = "interactive"
    /\ readyState' = "loading"
    /\ gameState' = InitialGameState
    /\ actionButtons' = "undefined"
    /\ statusMessage' = "undefined"
    /\ timers' = <<>>
    /\ errors' = {}
    /\ UNCHANGED <<localStorage, menu, viewer>>

\* The DOMContentLoaded handler: loadStatistics(), then resetGame()
DOMContentLoaded ==
    /\ readyState = "loading"
    /\ readyState' = "interactive"
    /\ ResetGame(LoadStatistics(gameState))
    /\ UNCHANGED <<localStorage, timers, errors, menu, viewer>>

\* click on #reset-doors
ResetClick ==
    /\ readyState = "interactive"
    /\ ResetGame(gameState)
    /\ UNCHANGED <<readyState, localStorage, timers, errors, menu, viewer>>

\* toggleProbabilities closing the opened doors as well
MutToggleProbabilities ==
    /\ readyState = "interactive"
    /\ \E checked \in BOOLEAN :
          /\ checked # gameState.showProbabilities
          /\ gameState' = [gameState EXCEPT !.showProbabilities = checked,
                                            !.revealedDoors = {}]
    /\ UNCHANGED <<readyState, localStorage, actionButtons, statusMessage, timers,
                   errors, menu, viewer>>

\* change of #show-probabilities
ToggleProbabilities ==
    /\ readyState = "interactive"
    /\ \E checked \in BOOLEAN :
          /\ checked # gameState.showProbabilities
          /\ gameState' = [gameState EXCEPT !.showProbabilities = checked]
    /\ UNCHANGED <<readyState, localStorage, actionButtons, statusMessage, timers,
                   errors, menu, viewer>>

\* The change handler of #door-count without its call of resetGame
MutDoorCountChangeKeepsRound(newCount) ==
    IF newCount >= MinDoors /\ newCount <= MaxDoors
    THEN /\ gameState' = [gameState EXCEPT !.numDoors = newCount]
         /\ UNCHANGED <<readyState, localStorage, actionButtons, statusMessage,
                        timers, errors, menu, viewer>>
    ELSE UNCHANGED vars

\* The change handler of #door-count refusing its upper limit
MutDoorCountChangeBelowMax(newCount) ==
    IF newCount >= MinDoors /\ newCount < MaxDoors
    THEN /\ ResetGame([gameState EXCEPT !.numDoors = newCount])
         /\ UNCHANGED <<readyState, localStorage, timers, errors, menu, viewer>>
    ELSE UNCHANGED vars

\* The change handler of #door-count without its lower limit
MutDoorCountChangeTo(newCount) ==
    IF newCount # NaN /\ newCount <= MaxDoors
    THEN /\ ResetGame([gameState EXCEPT !.numDoors = newCount])
         /\ UNCHANGED <<readyState, localStorage, timers, errors, menu, viewer>>
    ELSE UNCHANGED vars

\* The change handler of #door-count, newCount being parseInt(this.value)
\* (NaN compares false with every number, as it does here, being negative)
DoorCountChangeTo(newCount) ==
    IF newCount >= MinDoors /\ newCount <= MaxDoors
    THEN /\ ResetGame([gameState EXCEPT !.numDoors = newCount])
         /\ UNCHANGED <<readyState, localStorage, timers, errors, menu, viewer>>
    ELSE UNCHANGED vars

\* change of #door-count
DoorCountChange ==
    /\ readyState = "interactive"
    /\ \E newCount \in DoorCountInputs : DoorCountChangeTo(newCount)

\* The number of pending timers of a kind
Pending(kind) == Cardinality({ n \in 1..Len(timers) : timers[n].kind = kind })

\* click on a door that has a click handler
DoorClick ==
    /\ readyState = "interactive"
    /\ gameState.numDoors > AnimateAbove => Pending("reveal") < MaxReveals
    /\ \E doorIndex \in Clickable : SelectDoor(doorIndex)

\* click on #stay-button, which can be clicked while the buttons are shown
StayClick ==
    /\ readyState = "interactive"
    /\ actionButtons = "flex"
    /\ Pending("reset") < MaxResets
    /\ gameState.totalGames < MaxGames
    /\ MakeDecision("stay")

\* click on #switch-button
SwitchClick ==
    /\ readyState = "interactive"
    /\ actionButtons = "flex"
    /\ Pending("reset") < MaxResets
    /\ gameState.totalGames < MaxGames
    /\ MakeDecision("switch")

\* click on #stay-button while the storage refuses a write
StayClickThrows ==
    /\ readyState = "interactive"
    /\ actionButtons = "flex"
    /\ gameState.totalGames < MaxGames
    /\ gameState.stayWins < MaxGames /\ gameState.switchWins < MaxGames
    /\ \E failAt \in 1..3 : MakeDecisionThrows("stay", failAt)

\* click on #switch-button while the storage refuses a write
SwitchClickThrows ==
    /\ readyState = "interactive"
    /\ actionButtons = "flex"
    /\ gameState.totalGames < MaxGames
    /\ gameState.stayWins < MaxGames /\ gameState.switchWins < MaxGames
    /\ \E failAt \in 1..3 : MakeDecisionThrows("switch", failAt)

\* Timers of the same delay fire in the order they were set; a 300 ms timer
\* may overtake a 3000 ms timer set before it, never the other way round.
CanFire(n) ==
    IF timers[n].kind = "reveal"
    THEN \A m \in 1..(n - 1) : timers[m].kind # "reveal"
    ELSE n = 1

\* The 300 ms timer of a suspended revealDoorsSequentially fires: i++, then
\* the loop test
RevealResume ==
    /\ readyState = "interactive"
    /\ \E n \in 1..Len(timers) :
          /\ timers[n].kind = "reveal"
          /\ CanFire(n)
          /\ RevealIteration(gameState, RemoveAt(timers, n),
                             timers[n].availableDoors, timers[n].i + 1,
                             timers[n].doorsToReveal)
    /\ UNCHANGED <<readyState, localStorage, errors, menu, viewer>>

\* The 3000 ms timer of makeDecision fires: resetGame()
AutoReset ==
    /\ readyState = "interactive"
    /\ \E n \in 1..Len(timers) :
          /\ timers[n].kind = "reset"
          /\ CanFire(n)
          /\ timers' = RemoveAt(timers, n)
    /\ ResetGame(gameState)
    /\ UNCHANGED <<readyState, localStorage, errors, menu, viewer>>

\* The steps of the game. The show-probabilities checkbox is left to
\* SpecDisplay: no game step reads showProbabilities.
Next ==
    \/ DOMContentLoaded
    \/ Reload
    \/ ResetClick
    \/ DoorCountChange
    \/ DoorClick
    \/ StayClick
    \/ SwitchClick
    \/ RevealResume
    \/ AutoReset

Spec == Init /\ [][Next]_vars

\* The game with the show-probabilities checkbox
NextDisplay == Next \/ ToggleProbabilities

SpecDisplay == Init /\ [][NextDisplay]_vars

\* The game with a storage that may refuse a write
NextFail == Next \/ StayClickThrows \/ SwitchClickThrows

SpecFail == Init /\ [][NextFail]_vars

\* The game in a browser whose timers fire: a pending timer that can fire
\* does fire; the user may do anything or nothing.
SpecLive == Init /\ [][Next]_vars /\ WF_vars(RevealResume) /\ WF_vars(AutoReset)

\* change of #door-count to any count the handler accepts, by a user who
\* waits until no timer is pending
DoorCountChangeQuiet ==
    /\ readyState = "interactive"
    /\ timers = <<>>
    /\ \E newCount \in MinDoors..MaxDoors : DoorCountChangeTo(newCount)

\* The game of a patient user: the rounds are ended by their auto-reset
\* only, and the door count is changed only between rounds, so that no
\* reset meets a running reveal. The timers fire.
NextPatient ==
    \/ DOMContentLoaded
    \/ DoorCountChangeQuiet
    \/ DoorClick
    \/ StayClick
    \/ SwitchClick
    \/ RevealResume
    \/ AutoReset

SpecPatient ==
    Init /\ [][NextPatient]_vars /\ WF_vars(RevealResume) /\ WF_vars(AutoReset)

\* The game of a player who leaves the door count at its initial three
NextClassic ==
    \/ DOMContentLoaded
    \/ Reload
    \/ ResetClick
    \/ DoorClick
    \/ StayClick
    \/ SwitchClick
    \/ AutoReset

SpecClassic == Init /\ [][NextClassic]_vars

\* ------------------------------------------------------ the mobile menu
\* The click listener of .mobile-menu-btn with its body's last two lines
\* left out: the class is toggled, attribute and icon stay
MutMenuButtonListener(m) == [m EXCEPT !.active = ~@]

\* The click listener of .mobile-menu-btn: classList.toggle('active'), then
\* attribute and icon from classList.contains('active')
MenuButtonListener(m) ==
    LET isExpanded == ~m.active
    IN  [m EXCEPT !.active = isExpanded,
                  !.ariaExpanded = BooleanToString(isExpanded),
                  !.textContent = IF isExpanded THEN Close ELSE Hamburger]

\* The click listener of document, insideHeader being whether
\* event.target.closest('.header') finds an element
DocumentClickListener(m, insideHeader) ==
    IF ~insideHeader THEN CloseMenu(m) ELSE m

\* The resize listener of window
ResizeListener(m) ==
    IF m.innerWidth > MobileBreakpoint THEN CloseMenu(m) ELSE m

\* The DOMContentLoaded listener has run initMobileMenu before any of the
\* events below (the script is loaded with the page). A click on the menu
\* button runs the button's listener, then bubbles to document's.
MenuButtonClick ==
    /\ menu' = [DocumentClickListener(MenuButtonListener(menu),
                                      menu.buttonInHeader)
                   EXCEPT !.handled = "button"]
    /\ UNCHANGED <<readyState, gameState, localStorage, actionButtons,
                   statusMessage, timers, errors, viewer>>

\* A click on anything else, inside .header or outside it
DocumentClick ==
    /\ \E insideHeader \in BOOLEAN :
          menu' = [DocumentClickListener(menu, insideHeader)
                      EXCEPT !.handled = "document"]
    /\ UNCHANGED <<readyState, gameState, localStorage, actionButtons,
                   statusMessage, timers, errors, viewer>>

\* The window is resized
WindowResize ==
    /\ \E width \in Widths \ {menu.innerWidth} :
          menu' = [ResizeListener([menu EXCEPT !.innerWidth = width])
                      EXCEPT !.handled = "resize"]
    /\ UNCHANGED <<readyState, gameState, localStorage, actionButtons,
                   statusMessage, timers, errors, viewer>>

\* The page as served, whatever its markup
InitMenu ==
    /\ readyState = "loading"
    /\ gameState = InitialGameState
    /\ localStorage = [k \in StorageKeys |-> Absent]
    /\ actionButtons = "undefined"
    /\ statusMessage = "undefined"
    /\ timers = <<>>
    /\ errors = {}
    /\ menu \in ServedMenus
    /\ viewer = "elsewhere"

NextMenu == MenuButtonClick \/ DocumentClick \/ WindowResize

SpecMenu == InitMenu /\ [][NextMenu]_vars

\* -------------------------------------------------- the population viewer
\* The rows of the CSV file, the scrollable height of the page
\* (document.documentElement.scrollHeight - window.innerHeight; 0 when the
\* page fits the window) and window.scrollY, which overscroll takes below 0
\* and above the scrollable height
DataLengths == 1..MaxData
ScrollHeights == {0, PageHeight}
ScrollPositions == (0 - 1)..(PageHeight + 1)

\* The scroll listener without its test of scrollTicking
MutOnScroll(v) == [v EXCEPT !.frames = @ + 1, !.scrollTicking = TRUE]

\* The scroll listener: if (!scrollTicking) { requestAnimationFrame(...);
\* scrollTicking = true; }
OnScroll(v) ==
    IF ~v.scrollTicking
    THEN [v EXCEPT !.frames = @ + 1, !.scrollTicking = TRUE]
    ELSE v

\* updateFromScroll(): Math.floor(scrollPosition / scrollHeight * (length - 1))
\* is computed exactly here, as it is in floating point for a scrollHeight
\* that is a power of two
UpdateFromScroll(v) ==
    LET scrollHeight == v.scrollHeight
        scrollPosition == v.scrollY
        read == [v EXCEPT !.scrollPosition = scrollPosition]
    IN  IF scrollHeight <= 0 THEN read
        ELSE LET newIndex == (scrollPosition * (v.length - 1)) \div scrollHeight
             IN  IF newIndex # v.currentIndex /\ newIndex >= 0 /\ newIndex < v.length
                 THEN [read EXCEPT !.currentIndex = newIndex]
                 ELSE read

\* loadPopulationData() has pushed the rows of the file, initializeApp()
\* installs the scroll listener and shows the earliest row
InitializeApp ==
    /\ ~viewer.listening
    /\ \E rows \in DataLengths :
          viewer' = [viewer EXCEPT !.length = rows, !.listening = TRUE,
                                   !.currentIndex = 0]
    /\ UNCHANGED <<readyState, gameState, localStorage, actionButtons,
                   statusMessage, timers, errors, menu>>

\* The page is laid out anew (window resized, content changed)
Layout ==
    /\ \E height \in ScrollHeights \ {viewer.scrollHeight} :
          viewer' = [viewer EXCEPT !.scrollHeight = height]
    /\ UNCHANGED <<readyState, gameState, localStorage, actionButtons,
                   statusMessage, timers, errors, menu>>

\* The page is scrolled: a scroll event, which the listener handles once it
\* is installed
Scroll ==
    /\ viewer.scrollHeight > 0
    /\ viewer.unseen < MaxScrolls
    /\ \E position \in ScrollPositions \ {viewer.scrollY} :
          LET scrolled == [viewer EXCEPT !.scrollY = position]
          IN  viewer' = IF viewer.listening
                        THEN [OnScroll(scrolled) EXCEPT !.unseen = @ + 1]
                        ELSE scrolled
    /\ UNCHANGED <<readyState, gameState, localStorage, actionButtons,
                   statusMessage, timers, errors, menu>>

\* The browser runs a pending animation-frame callback: updateFromScroll();
\* scrollTicking = false;
AnimationFrame ==
    /\ viewer.frames > 0
    /\ viewer' = [UpdateFromScroll(viewer) EXCEPT !.frames = @ - 1,
                                                  !.scrollTicking = FALSE,
                                                  !.unseen = 0]
    /\ UNCHANGED <<readyState, gameState, localStorage, actionButtons,
                   statusMessage, timers, errors, menu>>

\* click on a timeline item: currentIndex = index (the smooth scrollTo that
\* follows arrives as scroll events)
TimelineClick ==
    /\ viewer.listening
    /\ \E index \in 0..(viewer.length - 1) :
          viewer' = [viewer EXCEPT !.currentIndex = index]
    /\ UNCHANGED <<readyState, gameState, localStorage, actionButtons,
                   statusMessage, timers, errors, menu>>

InitViewer ==
    /\ readyState = "loading"
    /\ gameState = InitialGameState
    /\ localStorage = [k \in StorageKeys |-> Absent]
    /\ actionButtons = "undefined"
    /\ statusMessage = "undefined"
    /\ timers = <<>>
    /\ errors = {}
    /\ menu = "elsewhere"
    /\ viewer = InitialViewer

NextViewer == InitializeApp \/ Layout \/ Scroll \/ AnimationFrame \/ TimelineClick

\* The viewer in a browser that renders: a requested animation frame comes
SpecViewer == InitViewer /\ [][NextViewer]_vars /\ WF_vars(AnimationFrame)

\* ---------------------------------------------------------------- claims
\* A step inside one page session
InSession == readyState = "interactive" /\ readyState' = "interactive"

\* A step in which makeDecision takes effect
Resolves == InSession /\ gameState.phase = "SWITCH_OR_STAY" /\ gameState'.phase = "REVEAL"

\* The decision and the outcome a resolving step reports
StayedAfter == statusMessage' \in {ResultMessage(TRUE, "stay"), ResultMessage(FALSE, "stay")}
SwitchedAfter == statusMessage' \in {ResultMessage(TRUE, "switch"), ResultMessage(FALSE, "switch")}
WonAfter == statusMessage' \in {ResultMessage(TRUE, "stay"), ResultMessage(TRUE, "switch")}

\* The doors a switch can go to: neither the selection nor revealed
SwitchTargets ==
    { i \in 0..(gameState.numDoors - 1) :
        i # gameState.selectedDoor /\ i \notin gameState.revealedDoors }

\* Local storage holds exactly what saveStatistics writes for the counters
Persisted ==
    /\ localStorage["montyHall_stayWins"] = NumberToString(gameState.stayWins)
    /\ localStorage["montyHall_switchWins"] = NumberToString(gameState.switchWins)
    /\ localStorage["montyHall_totalGames"] = NumberToString(gameState.totalGames)

\* C1: in every reachable state revealedDoors contains neither carDoor nor
\* the currently selected door.
C1_RevealedExcludesCarAndSelection ==
    /\ gameState.carDoor \notin gameState.revealedDoors
    /\ gameState.selectedDoor \notin gameState.revealedDoors

\* C2: whenever the phase is SWITCH_OR_STAY, revealedDoors holds exactly
\* numDoors - 2 distinct doors (it is never seen partially filled).
C2_RevealCompleteInDecide ==
    gameState.phase = "SWITCH_OR_STAY" =>
        Cardinality(gameState.revealedDoors) = gameState.numDoors - 2

\* C3 as claimed: within a session the phase only ever changes along
\* SELECT -> SWITCH_OR_STAY -> REVEAL -> SELECT.
C3_StrictCycle ==
    [][InSession /\ gameState'.phase # gameState.phase =>
          <<gameState.phase, gameState'.phase>> \in
              { <<"SELECT", "SWITCH_OR_STAY">>, <<"SWITCH_OR_STAY", "REVEAL">>,
                <<"REVEAL", "SELECT">> }]_vars

\* C3 as amended: within a session the phase changes only from SELECT to
\* SWITCH_OR_STAY, from SWITCH_OR_STAY to REVEAL, or back to SELECT by a
\* resetGame (which clears selection and reveals) from SWITCH_OR_STAY or
\* REVEAL; it never goes from SELECT to REVEAL or from REVEAL to
\* SWITCH_OR_STAY.
C3_PhaseSteps ==
    [][InSession /\ gameState'.phase # gameState.phase =>
          \/ <<gameState.phase, gameState'.phase>> \in
                { <<"SELECT", "SWITCH_OR_STAY">>, <<"SWITCH_OR_STAY", "REVEAL">> }
          \/ /\ gameState'.phase = "SELECT"
             /\ gameState'.selectedDoor = Null
             /\ gameState'.revealedDoors = {}]_vars

\* C3 witness: with no round resolved yet, a new round has started while the
\* animated reveal of the round before is still suspended: that round was
\* abandoned in SWITCH_OR_STAY.
C3_Witness ==
    /\ gameState.phase = "SELECT"
    /\ gameState.totalGames = 0
    /\ Pending("reveal") = 1

\* C4: when makeDecision('switch') takes effect there is exactly one door
\* that is neither the prior selection nor revealed, and selectedDoor becomes
\* that door; with 'stay' selectedDoor is unchanged.
C4_SwitchGoesToTheOnlyOtherDoor ==
    [][Resolves =>
          /\ SwitchedAfter =>
                /\ Cardinality(SwitchTargets) = 1
                /\ gameState'.selectedDoor \in SwitchTargets
          /\ StayedAfter => gameState'.selectedDoor = gameState.selectedDoor]_vars

\* C5: a resolved round is won under 'switch' iff the initial pick was not
\* carDoor, and won under 'stay' iff the initial pick was carDoor.
C5_SwitchWinsIffPickWasWrong ==
    [][Resolves =>
          /\ SwitchedAfter => (WonAfter <=> gameState.selectedDoor # gameState.carDoor)
          /\ StayedAfter => (WonAfter <=> gameState.selectedDoor = gameState.carDoor)]_vars

\* C6: each makeDecision that takes effect adds exactly 1 to totalGames, adds
\* 1 to the win counter of the chosen strategy if the final door is the car
\* door and 0 otherwise, and leaves the other strategy's win counter alone.
C6_CountersStep ==
    [][Resolves =>
          LET gain == IF gameState'.selectedDoor = gameState'.carDoor THEN 1 ELSE 0
          IN  /\ StayedAfter \/ SwitchedAfter
              /\ gameState'.totalGames = gameState.totalGames + 1
              /\ StayedAfter =>
                    /\ gameState'.stayWins = gameState.stayWins + gain
                    /\ gameState'.switchWins = gameState.switchWins
              /\ SwitchedAfter =>
                    /\ gameState'.switchWins = gameState.switchWins + gain
                    /\ gameState'.stayWins = gameState.stayWins]_vars

\* C6 witness: a round has been resolved by staying on the car door.
C6_Witness ==
    /\ gameState.phase = "REVEAL"
    /\ statusMessage = ResultMessage(TRUE, "stay")
    /\ gameState.stayWins = 1
    /\ gameState.totalGames = 1

\* C7: the game keeps per-strategy round counters stayRounds and
\* switchRounds with stayRounds + switchRounds = totalGames,
\* stayWins <= stayRounds and switchWins <= switchRounds in every state.
C7_PerStrategyRounds ==
    readyState = "interactive" =>
        /\ {"stayRounds", "switchRounds"} \subseteq DOMAIN gameState
        /\ gameState.stayRounds + gameState.switchRounds = gameState.totalGames
        /\ gameState.stayWins <= gameState.stayRounds
        /\ gameState.switchWins <= gameState.switchRounds

\* C8: within a session no step lowers stayWins, switchWins or totalGames.
C8_CountersNeverDecrease ==
    [][InSession =>
          /\ gameState'.stayWins >= gameState.stayWins
          /\ gameState'.switchWins >= gameState.switchWins
          /\ gameState'.totalGames >= gameState.totalGames]_vars

\* C8 witness: a new round has started with the counters of the resolved
\* round kept.
C8_Witness ==
    /\ gameState.phase = "SELECT"
    /\ readyState = "interactive"
    /\ gameState.totalGames = 1
    /\ gameState.stayWins + gameState.switchWins = 1

\* C9: a step in which makeDecision takes effect leaves the stored values
\* equal to the counters, and every later step of the session keeps them
\* equal.
C9_PersistedAfterResolution ==
    [][InSession =>
          /\ Resolves => Persisted'
          /\ Persisted => Persisted']_vars

\* C9 witness: the next round has reached SWITCH_OR_STAY and storage still
\* holds the counters of the resolved round.
C9_Witness ==
    /\ gameState.phase = "SWITCH_OR_STAY"
    /\ gameState.totalGames = 1
    /\ localStorage["montyHall_totalGames"] = <<"1">>
    /\ Persisted

\* The counter loadStatistics fills from a storage key
CounterOf(gs, key) ==
    CASE key = "montyHall_stayWins" -> gs.stayWins
      [] key = "montyHall_switchWins" -> gs.switchWins
      [] key = "montyHall_totalGames" -> gs.totalGames

\* The numbers a session can have stored
StoredNumbers == 0..(40 + MaxGames)

\* C10: loadStatistics at startup sets a counter to 0 when its key is absent
\* and to n when the key holds what saveStatistics writes for n.
C10_LoadRestoresSaved ==
    [][readyState = "loading" /\ readyState' = "interactive" =>
          \A key \in StorageKeys :
              /\ localStorage[key] = Absent => CounterOf(gameState', key) = 0
              /\ \A n \in StoredNumbers :
                    localStorage[key] = NumberToString(n) =>
                        CounterOf(gameState', key) = n]_vars

\* C10 witness: a session has started from the storage of forty rounds.
C10_Witness ==
    /\ readyState = "interactive"
    /\ gameState.stayWins = 12
    /\ gameState.switchWins = 25
    /\ gameState.totalGames = 40

\* C11: when the storage write inside makeDecision fails, the round is still
\* resolved: the phase becomes RESOLVED, the counters have been incremented
\* once, and the auto-reset that starts the next round is scheduled.
C11_FailedWriteStillResolves ==
    [][(InSession /\ errors' # errors)
         => /\ gameState'.phase = "REVEAL"
            /\ gameState'.totalGames = Increment(gameState.totalGames)
            /\ Len(timers') = Len(timers) + 1]_vars

\* The unopened doors other than the selected one
OtherUnopened ==
    { i \in 0..(gameState.numDoors - 1) :
        i # gameState.selectedDoor /\ i \notin gameState.revealedDoors }

\* C12: in phase DECIDE calculateProbability returns 1/n for the selected
\* door, 0 for every revealed door and (1 - 1/n)/k for every other unopened
\* door, k being the number of those; in DECIDE k = 1, so that the one
\* alternative door gets 1 - 1/n.
C12_DecideProbabilities ==
    (readyState = "interactive" /\ gameState.phase = "SWITCH_OR_STAY") =>
        LET n == gameState.numDoors
            k == Cardinality(OtherUnopened)
        IN  /\ CalculateProbability(gameState, gameState.selectedDoor) = <<1, n>>
            /\ \A d \in gameState.revealedDoors :
                  CalculateProbability(gameState, d) = <<0, 1>>
            /\ k = 1
            /\ \A d \in OtherUnopened :
                  CalculateProbability(gameState, d) = <<n - 1, n>>

\* The sum of two fractions
RatAdd(x, y) == Rat(x[1] * y[2] + y[1] * x[2], x[2] * y[2])

\* The probabilities renderDoors shows on the doors 0..count-1, added up
RECURSIVE ShownTotal(_, _)
ShownTotal(gs, count) ==
    IF count = 0 THEN Rat(0, 1)
    ELSE RatAdd(ShownTotal(gs, count - 1), CalculateProbability(gs, count - 1))

\* C13: whenever the probabilities are displayed, in whatever phase, those
\* of the doors 0..numDoors-1 add up to exactly 1.
C13_ProbabilitiesSumToOne ==
    (readyState = "interactive" /\ gameState.showProbabilities) =>
        ShownTotal(gameState, gameState.numDoors) = <<1, 1>>

\* C14: showing or hiding the probabilities, which evaluates
\* calculateProbability for every door, changes nothing of the game (door
\* count, car, selection, opened doors, phase, counters, storage, timers),
\* and calculateProbability returns for every door the value it returned
\* before.
C14_DisplayIsPure ==
    [][(InSession /\ gameState'.showProbabilities # gameState.showProbabilities)
         => /\ gameState' = [gameState EXCEPT
                                !.showProbabilities = gameState'.showProbabilities]
            /\ UNCHANGED <<localStorage, actionButtons, statusMessage, timers>>
            /\ \A d \in 0..(gameState.numDoors - 1) :
                  CalculateProbability(gameState', d)
                      = CalculateProbability(gameState, d)]_vars

\* The probabilities are shown in the middle of a round
C14_Witness ==
    /\ gameState.showProbabilities
    /\ gameState.phase = "SWITCH_OR_STAY"
    /\ gameState.revealedDoors # {}

\* C15: makeDecision called when the phase is not DECIDE, and selectDoor
\* called when the phase is not SELECT, change nothing: no field of the game,
\* no counter, no stored value, no message, and no auto-reset is scheduled.
C15_WrongPhaseCallsChangeNothing ==
    readyState = "interactive" =>
        /\ gameState.phase # "SWITCH_OR_STAY" =>
              \A decision \in {"stay", "switch"} :
                  ~ ENABLED <<MakeDecision(decision)>>_vars
        /\ gameState.phase # "SELECT" =>
              \A doorIndex \in 0..(gameState.numDoors - 1) :
                  ~ ENABLED <<SelectDoor(doorIndex)>>_vars

\* The Stay and Switch buttons are shown, and can be clicked, while no
\* decision is due
C15_Witness ==
    /\ readyState = "interactive"
    /\ actionButtons = "flex"
    /\ gameState.phase # "SWITCH_OR_STAY"

\* C16: makeDecision called when the phase is not DECIDE, and selectDoor
\* called when the phase is not SELECT, end with an InvalidPhaseTransition
\* error.
C16_WrongPhaseCallsSignalError ==
    readyState = "interactive" =>
        /\ gameState.phase # "SWITCH_OR_STAY" =>
              \A decision \in {"stay", "switch"} :
                  ENABLED (/\ MakeDecision(decision)
                           /\ "InvalidPhaseTransition" \in errors')
        /\ gameState.phase # "SELECT" =>
              \A doorIndex \in 0..(gameState.numDoors - 1) :
                  ENABLED (/\ SelectDoor(doorIndex)
                           /\ "InvalidPhaseTransition" \in errors')

\* The door counts below three a user can ask for, and no number at all
TooFewDoors == {NaN} \cup 0..2

\* C17: a requested door count below 3, or one that is not a number, is
\* refused: the door count and the round stay as they are; the door count
\* is at least 3 in every reachable state.
C17_TooFewDoorsRejected ==
    /\ gameState.numDoors >= 3
    /\ readyState = "interactive" =>
          \A newCount \in TooFewDoors : ~ ENABLED <<DoorCountChangeTo(newCount)>>_vars

\* Two doors are asked for in the middle of a round with four doors, and
\* the request leaves everything as it is
C17_Witness ==
    /\ readyState = "interactive"
    /\ gameState.numDoors = 4
    /\ gameState.phase = "SWITCH_OR_STAY"
    /\ ENABLED (DoorCountChangeTo(2) /\ UNCHANGED vars)

\* A new round with count doors has begun
NewRoundWith(count) ==
    /\ gameState'.numDoors = count
    /\ gameState'.carDoor \in 0..(count - 1)
    /\ gameState'.selectedDoor = Null
    /\ gameState'.revealedDoors = {}
    /\ gameState'.phase = "SELECT"

\* C18 as stated: every door count from 3 to 16 is accepted: asking for it
\* sets numDoors to it and starts a new round with that many doors.
C18_ThreeToSixteenAccepted ==
    readyState = "interactive" =>
        \A newCount \in 3..16 :
            ENABLED (DoorCountChangeTo(newCount) /\ NewRoundWith(newCount))

\* C18, amended: every door count from 3 to 10 is accepted: asking for it
\* always sets numDoors to it and starts a new round with that many doors;
\* a door count from 11 to 16 is refused and changes nothing.
C18_ThreeToTenAccepted ==
    readyState = "interactive" =>
        /\ \A newCount \in 3..10 :
              /\ ENABLED DoorCountChangeTo(newCount)
              /\ ~ ENABLED (DoorCountChangeTo(newCount) /\ ~ NewRoundWith(newCount))
        /\ \A newCount \in 11..16 :
              ~ ENABLED <<DoorCountChangeTo(newCount)>>_vars

\* A round with four doors, asked for in the door-count input, has begun
\* with the car behind the fourth door
C18_Witness ==
    /\ readyState = "interactive"
    /\ gameState.numDoors = 4
    /\ gameState.carDoor = 3
    /\ gameState.phase = "SELECT"

\* What resetGame leaves behind, from the record gs it was called on: no
\* selection, no opened door, phase SELECT, and the counters and the door
\* count of gs
RoundStartedFrom(gs) ==
    /\ gameState'.selectedDoor = Null
    /\ gameState'.revealedDoors = {}
    /\ gameState'.phase = "SELECT"
    /\ gameState'.stayWins = gs.stayWins
    /\ gameState'.switchWins = gs.switchWins
    /\ gameState'.totalGames = gs.totalGames
    /\ gameState'.numDoors = gs.numDoors
    /\ localStorage' = localStorage

\* The door counts asked for that the handler accepts
AcceptedInputs == DoorCountInputs \cap MinDoors..MaxDoors

\* C19: resetGame, in whatever phase and by whatever trigger (startup, reset
\* button, door-count change, auto-reset timer), clears the selection and
\* the opened doors and sets the phase to SELECT, and changes none of the
\* counters, the stored values and the door count: at startup the counters
\* stay as loadStatistics read them, after a door-count change the door
\* count stays as the handler set it. (Each line reads "a step of this
\* trigger starts a round", written as "a round is started, or the step is
\* none of this trigger".)
C19_ResetStartsRound ==
    [][/\ RoundStartedFrom(gameState) \/ ~ (ResetClick \/ AutoReset)
       /\ DOMContentLoaded => RoundStartedFrom(LoadStatistics(gameState))
       /\ \A newCount \in AcceptedInputs :
             \/ RoundStartedFrom([gameState EXCEPT !.numDoors = newCount])
             \/ ~ (readyState = "interactive" /\ DoorCountChangeTo(newCount))]_vars

\* The auto-reset after the first round of a first visit has started the
\* second round
C19_Witness ==
    /\ readyState = "interactive"
    /\ gameState.phase = "SELECT"
    /\ gameState.selectedDoor = Null
    /\ gameState.totalGames = 1
    /\ localStorage["montyHall_totalGames"] = <<"1">>
    /\ timers = <<>>

\* C20: once the page is initialised, the car is behind one of the doors:
\* 0 <= carDoor < numDoors, also right after the door count was reduced in
\* the middle of a round.
C20_CarBehindADoor ==
    readyState = "interactive" =>
        gameState.carDoor \in 0..(gameState.numDoors - 1)

\* The door count was reduced from four to three while the reveal of a
\* round with four doors was still running
C20_Witness ==
    /\ readyState = "interactive"
    /\ gameState.numDoors = 3
    /\ Pending("reveal") = 1

\* The rounds with three doors: <<carDoor, initial pick>>
ClassicRounds == (0..(InitialDoors - 1)) \X (0..(InitialDoors - 1))

\* The states selectDoor can leave such a round in, one for every choice
\* of the host
DecideStates(round) ==
    LET gs == [InitialGameState EXCEPT !.carDoor = round[1],
                                       !.selectedDoor = round[2],
                                       !.phase = "SWITCH_OR_STAY"]
    IN  { [gs EXCEPT !.revealedDoors = revealed] : revealed \in RevealDoor(gs) }

\* The rounds the decision wins whatever the host opens, and those it loses
\* whatever the host opens
AlwaysWon(decision) ==
    { round \in ClassicRounds :
        \A gs \in DecideStates(round) : FinalDoor(gs, decision) = round[1] }
AlwaysLost(decision) ==
    { round \in ClassicRounds :
        \A gs \in DecideStates(round) : FinalDoor(gs, decision) # round[1] }

\* C21: with three doors, of the equally likely combinations of car door
\* and first pick, switching wins in exactly 2/3 and staying in exactly 1/3,
\* whatever door the host opens; and a round played with three doors is
\* counted as a win of its strategy exactly in those combinations (switch:
\* the pick was not the car; stay: the pick was the car).
C21_ClassicWinRates ==
    /\ AlwaysWon("switch") \cup AlwaysLost("switch") = ClassicRounds
    /\ 3 * Cardinality(AlwaysWon("switch")) = 2 * Cardinality(ClassicRounds)
    /\ AlwaysWon("stay") \cup AlwaysLost("stay") = ClassicRounds
    /\ 3 * Cardinality(AlwaysWon("stay")) = Cardinality(ClassicRounds)
    /\ [][Resolves =>
            LET round == <<gameState.carDoor, gameState.selectedDoor>>
            IN  /\ SwitchedAfter =>
                      /\ WonAfter <=> round \in AlwaysWon("switch")
                      /\ gameState'.switchWins # gameState.switchWins <=> WonAfter
                      /\ gameState'.stayWins = gameState.stayWins
                /\ StayedAfter =>
                      /\ WonAfter <=> round \in AlwaysWon("stay")
                      /\ gameState'.stayWins # gameState.stayWins <=> WonAfter
                      /\ gameState'.switchWins = gameState.switchWins]_vars

\* A round with three doors was switched and won
C21_Witness ==
    /\ readyState = "interactive"
    /\ gameState.numDoors = 3
    /\ gameState.phase = "REVEAL"
    /\ statusMessage = ResultMessage(TRUE, "switch")
    /\ gameState.selectedDoor = gameState.carDoor

\* C22: a reveal still running when a new round is started adds no door to
\* the new round: while the new round waits for its pick (phase SELECT) no
\* door is open, and the car of a round is never behind an open door.
C22_NoLeakFromAbandonedReveal ==
    readyState = "interactive" =>
        /\ gameState.phase = "SELECT" => gameState.revealedDoors = {}
        /\ gameState.carDoor \notin gameState.revealedDoors

\* C23: the auto-reset of a resolved round ends only that round: a round
\* that has a pick and awaits its decision (phase DECIDE) goes back to
\* SELECT only by the reset button or a door-count change, neither of
\* which consumes an auto-reset timer.
C23_AutoResetEndsOnlyItsRound ==
    [][(InSession /\ gameState.phase = "SWITCH_OR_STAY"
                  /\ gameState'.phase = "SELECT")
         => Pending("reset")' = Pending("reset")]_vars

\* C24: every resolved round is followed by a new round without any user
\* action: whenever the phase is RESOLVED, it eventually is SELECT with no
\* selection and no opened door.
C24_ResolvedRoundRestarts ==
    (readyState = "interactive" /\ gameState.phase = "REVEAL")
        ~> (/\ gameState.phase = "SELECT"
            /\ gameState.selectedDoor = Null
            /\ gameState.revealedDoors = {})

\* A round is resolved and its auto-reset waits behind the timer of a
\* reveal still running
C24_Witness ==
    /\ readyState = "interactive"
    /\ gameState.phase = "REVEAL"
    /\ Len(timers) = 2
    /\ timers[1].kind = "reveal"
    /\ timers[2].kind = "reset"

\* The number of opened doors
Opened == Cardinality(gameState.revealedDoors)

\* A door was picked and the stay/switch choice is not offered yet
Revealing == gameState.phase = "SWITCH_OR_STAY" /\ actionButtons # "flex"

\* C25: when no reset meets a running reveal and the timers fire, the reveal
\* that follows a pick terminates: every reveal step opens exactly one
\* door, the reveal is still scheduled while it runs and has opened at most
\* numDoors - 2 doors, and it ends with the stay/switch choice offered and
\* exactly numDoors - 2 doors opened (one door for three doors), for every
\* door count from 3 to 10.
C25_RevealTerminates ==
    /\ [](readyState = "interactive" =>
            /\ (gameState.phase = "SWITCH_OR_STAY" /\ actionButtons = "flex")
                  => Opened = gameState.numDoors - 2
            /\ Revealing =>
                  /\ Len(timers) = 1
                  /\ timers[1].kind = "reveal"
                  /\ Opened = timers[1].i + 1
                  /\ Opened <= gameState.numDoors - 2)
    /\ [][(InSession /\ gameState'.phase = "SWITCH_OR_STAY"
                     /\ gameState'.revealedDoors # gameState.revealedDoors)
             => /\ gameState.revealedDoors \subseteq gameState'.revealedDoors
                /\ Opened' = Opened + 1]_vars
    /\ (readyState = "interactive" /\ gameState.phase = "SWITCH_OR_STAY")
          ~> (actionButtons = "flex" /\ Opened = gameState.numDoors - 2)

\* The choice is offered in a round with ten doors, eight of them opened
C25_Witness ==
    /\ readyState = "interactive"
    /\ gameState.numDoors = 10
    /\ gameState.phase = "SWITCH_OR_STAY"
    /\ actionButtons = "flex"
    /\ Opened = 8

\* The doors the host may open: neither the car nor the pick nor open
LegalDoors ==
    { d \in 0..(gameState.numDoors - 1) :
        /\ d # gameState.carDoor
        /\ d # gameState.selectedDoor
        /\ d \notin gameState.revealedDoors }

\* C26: the host's choice is unconstrained among the legal doors, at the
\* pick and at every later step of the reveal: each door that is neither
\* car nor pick nor open can be the next one opened, so that, the pick being
\* the car, each other door can be the one left closed. When the choice is
\* offered, one other door is closed; it is the car if the pick was not.
C26_HostChoiceUnconstrained ==
    readyState = "interactive" =>
        /\ gameState.phase = "SELECT" =>
              \A pick \in 0..(gameState.numDoors - 1) :
                  \A d \in 0..(gameState.numDoors - 1) \ {gameState.carDoor, pick} :
                      ENABLED (/\ SelectDoor(pick)
                               /\ d \in gameState'.revealedDoors)
        /\ (Revealing /\ Opened < gameState.numDoors - 2) =>
              \A d \in LegalDoors :
                  ENABLED (/\ RevealResume
                           /\ gameState'.revealedDoors
                                  = gameState.revealedDoors \cup {d})
        /\ (gameState.phase = "SWITCH_OR_STAY" /\ actionButtons = "flex") =>
              /\ Cardinality(OtherUnopened) = 1
              /\ gameState.selectedDoor # gameState.carDoor
                    => OtherUnopened = {gameState.carDoor}

\* C27: the stay and switch buttons are displayed only when a decision is
\* legal: whenever they are displayed the phase is DECIDE and numDoors - 2
\* doors are open; in the phases SELECT and RESOLVED they are hidden.
C27_ButtonsOnlyWhenDecisionLegal ==
    (readyState = "interactive" /\ actionButtons = "flex") =>
        /\ gameState.phase = "SWITCH_OR_STAY"
        /\ Opened = gameState.numDoors - 2

\* C28: a round is counted at most once between two round starts, however
\* the stay and switch buttons are activated: a step that counts (it
\* changes totalGames or a win counter) adds one to totalGames and at most
\* one to the wins and closes the round (phase DECIDE to RESOLVED), and a
\* closed round is left only by resetGame (to SELECT), so that no second
\* activation finds the round open.
C28_RoundCountedOnce ==
    [][InSession =>
          /\ (\/ gameState'.totalGames # gameState.totalGames
              \/ gameState'.stayWins # gameState.stayWins
              \/ gameState'.switchWins # gameState.switchWins)
                => /\ gameState'.totalGames = Increment(gameState.totalGames)
                   /\ gameState'.stayWins + gameState'.switchWins
                         <= gameState.stayWins + gameState.switchWins + 1
                   /\ gameState.phase = "SWITCH_OR_STAY"
                   /\ gameState'.phase = "REVEAL"
          /\ (gameState.phase = "REVEAL" /\ gameState'.phase # "REVEAL")
                => gameState'.phase = "SELECT"]_vars

\* What a screen reader and the eye are shown of the menu
MenuShown == <<menu.active, menu.ariaExpanded, menu.textContent>>

MenuConsistent ==
    /\ (menu.ariaExpanded = "true") <=> menu.active
    /\ (menu.textContent = Close) <=> menu.active
    /\ (menu.textContent = Hamburger) <=> ~menu.active

\* C29: whatever markup the page was served with, every menu-button click,
\* click elsewhere and window resize either leaves class, attribute and icon
\* as they were or leaves them consistent: aria-expanded is "true" exactly
\* when the nav links carry 'active', the button shows the close icon
\* exactly when they do and the hamburger exactly when they do not. So a
\* menu that is consistent stays so, and any menu is consistent from the
\* first event that changes it.
C29_MenuConsistency ==
    [][MenuShown' = MenuShown \/ MenuConsistent']_vars

\* The menu button has opened the menu of a narrow window.
C29_Witness ==
    /\ menu.handled = "button"
    /\ menu.active
    /\ menu.ariaExpanded = "true"
    /\ menu.textContent = Close
    /\ menu.innerWidth <= MobileBreakpoint

\* C30: however many scroll events arrive, at most one animation-frame
\* callback is pending, scrollTicking is true exactly while one is pending,
\* currentIndex stays within 0..populationData.length - 1 once the data is
\* loaded, the callback's updateFromScroll reads the scroll position of the
\* moment it runs, and every scroll event the listener has handled is
\* eventually followed by such a run.
C30_ScrollThrottling ==
    /\ [](/\ viewer.frames <= 1
          /\ viewer.scrollTicking <=> (viewer.frames = 1)
          /\ viewer.listening =>
                (viewer.currentIndex >= 0 /\ viewer.currentIndex <= viewer.length - 1))
    /\ [][viewer'.frames < viewer.frames =>
             /\ viewer'.scrollPosition = viewer.scrollY
             /\ viewer'.currentIndex >= 0
             /\ viewer'.currentIndex <= viewer.length - 1]_vars
    /\ (viewer.unseen > 0) ~>
          (viewer.unseen = 0 /\ viewer.scrollPosition = viewer.scrollY)

\* Two scroll events have arrived since the last run, one callback is
\* pending, and an earlier run has moved currentIndex to the last row.
C30_Witness ==
    /\ viewer.unseen = MaxScrolls
    /\ viewer.frames = 1
    /\ viewer.scrollPosition # Null
    /\ viewer.length = MaxData
    /\ viewer.currentIndex = viewer.length - 1

====
